---- MODULE Spec2Model ----
(***************************************************************************)
(* Model of the project-scaffolding generator: main (src/main.rs), the     *)
(* git collaborator (src/git.rs) and parse_definition / find_for_str /     *)
(* generate (src/lib.rs).                                                  *)
(*                                                                         *)
(* Strings are sequences of one-character strings, so that regular         *)
(* expressions, path joins and template rendering are computed rather than *)
(* assumed.                                                                *)
(***************************************************************************)
EXTENDS Integers, Sequences, FiniteSets, TLC

(***************************************************************************)
(* Strings used by the program and by the inputs.                          *)
(***************************************************************************)
s_template_yml == <<"t","e","m","p","l","a","t","e",".","y","m","l">>
s_git          == <<".","g","i","t">>
s_git_c        == <<".","g","i","t","/","c">>
s_xgit         == <<"x","g","i","t">>
s_a            == <<"a">>
s_b            == <<"b">>
s_d            == <<"d">>
s_d_f          == <<"d","/","f">>
s_d_k          == <<"d","/","k">>
s_e            == <<"e">>
s_demo         == <<"d","e","m","o">>
s_proj         == <<"p","r","o","j">>
s_dflt         == <<"d","f","l","t">>
s_cfg          == <<"c","f","g">>
s_out          == <<".","o","u","t">>

\* the regular expressions of the three fallback rules (lib.rs:51,57,63)
re_template_yml == <<"^">> \o s_template_yml \o <<"$">>
re_git_dir      == <<"^",".","g","i","t","/">>
re_git          == <<"^",".","g","i","t","$">>
re_any          == <<".","*">>
\* regular expressions a template.yml may declare
re_a            == <<"^","a","$">>
re_b            == <<"^","b","$">>
re_d            == <<"^","d","$">>
re_d_f          == <<"^","d","/","f","$">>
re_d_any        == <<"^","d","/">>
re_tyml_esc     == <<"^","t","e","m","p","l","a","t","e","\\",".","y","m","l","$">>
re_bad          == <<"*","a">>

(***************************************************************************)
(* regex::Regex, restricted to literals, ., \c, ^, $ and a         *)
(* postfix *.                                                            *)
(***************************************************************************)
RECURSIVE RegexAtoms(_, _)
\* the atoms of pattern s from position i on; <<"invalid">> marks a syntax error
RegexAtoms(s, i) ==
    IF i > Len(s) THEN <<>>
    ELSE LET c    == s[i]
             esc  == c = "\\"
             j    == IF esc THEN i + 2 ELSE i + 1
             star == j <= Len(s) /\ s[j] = "*"
             nxt  == IF star THEN j + 1 ELSE j
             atom == IF esc THEN [t |-> "lit", c |-> s[i + 1], star |-> star]
                     ELSE IF c = "." THEN [t |-> "any", c |-> c, star |-> star]
                     ELSE IF c = "^" THEN [t |-> "bol", c |-> c, star |-> FALSE]
                     ELSE IF c = "$" THEN [t |-> "eol", c |-> c, star |-> FALSE]
                     ELSE [t |-> "lit", c |-> c, star |-> star]
         IN  IF (esc /\ i + 1 > Len(s)) \/ c = "*" \/ c = "(" \/ c = ")"
             THEN <<[t |-> "invalid", c |-> c, star |-> FALSE]>>
             ELSE <<atom>> \o RegexAtoms(s, nxt)

\* Regex::new: Ok(compiled) or Err
RegexNew(s) ==
    LET atoms == RegexAtoms(s, 1)
    IN  IF \E k \in 1..Len(atoms) : atoms[k].t = "invalid"
        THEN [ok |-> FALSE, atoms |-> <<>>, src |-> s]
        ELSE [ok |-> TRUE, atoms |-> atoms, src |-> s]

CharMatch(a, c) == IF a.t = "any" THEN c # "\n" ELSE a.c = c

RECURSIVE MatchHere(_, _, _, _)
\* do the atoms from the k-th on match a substring of s starting at pos
MatchHere(atoms, k, s, pos) ==
    IF k > Len(atoms) THEN TRUE
    ELSE LET a == atoms[k]
         IN  IF a.t = "bol" THEN pos = 1 /\ MatchHere(atoms, k + 1, s, pos)
             ELSE IF a.t = "eol" THEN pos = Len(s) + 1 /\ MatchHere(atoms, k + 1, s, pos)
             ELSE IF a.star
                  THEN \/ MatchHere(atoms, k + 1, s, pos)
                       \/ /\ pos <= Len(s)
                          /\ CharMatch(a, s[pos])
                          /\ MatchHere(atoms, k, s, pos + 1)
             ELSE /\ pos <= Len(s)
                  /\ CharMatch(a, s[pos])
                  /\ MatchHere(atoms, k + 1, s, pos + 1)

\* Regex::is_match: an unanchored search
is_match(re, s) == \E pos \in 1..(Len(s) + 1) : MatchHere(re.atoms, 1, s, pos)

(***************************************************************************)
(* serde_yaml::Value, as far as parse_definition inspects it.              *)
(***************************************************************************)
YStr(s)   == [t |-> "str",  v |-> s]
YBool(b)  == [t |-> "bool", v |-> b]
YNum(n)   == [t |-> "num",  v |-> n]
YNull     == [t |-> "null", v |-> 0]
YSeq(q)   == [t |-> "seq",  v |-> q]
YMap(f)   == [t |-> "map",  v |-> f]
\* a document that from_reader rejects
YInvalid  == [t |-> "invalid", v |-> 0]
YAbsent   == [t |-> "absent", v |-> 0]

\* Value::get / Mapping::get
YGet(m, k) == IF k \in DOMAIN m.v THEN m.v[k] ELSE YAbsent

None    == [some |-> FALSE, v |-> <<>>]
Some(x) == [some |-> TRUE, v |-> x]

Ok(x)     == [st |-> "ok", v |-> x, msg |-> ""]
Err(m)    == [st |-> "err", v |-> <<>>, msg |-> m]
\* a panic: the process aborts instead of returning a value
Panic(m)  == [st |-> "panic", v |-> <<>>, msg |-> m]

\* the position of the first element that is not Ok, 0 when all are Ok
FirstBad(outs) ==
    IF \E i \in 1..Len(outs) : outs[i].st # "ok"
    THEN CHOOSE i \in 1..Len(outs) :
            /\ outs[i].st # "ok"
            /\ \A j \in 1..(i - 1) : outs[j].st = "ok"
    ELSE 0

\* iter().map(f).collect::<Result<Vec<_>>>(): the first failure, else all values
Collect(outs) ==
    IF FirstBad(outs) # 0 THEN outs[FirstBad(outs)]
    ELSE Ok([i \in 1..Len(outs) |-> outs[i].v])

\* lib.rs:49-68
default_files_entry ==
    << [sources |-> <<RegexNew(re_template_yml)>>,
        template |-> TRUE, include |-> FALSE, rename |-> None],
       [sources |-> <<RegexNew(re_git_dir), RegexNew(re_git)>>,
        template |-> TRUE, include |-> FALSE, rename |-> None],
       [sources |-> <<RegexNew(re_any)>>,
        template |-> TRUE, include |-> TRUE, rename |-> None] >>

\* lib.rs:89-105, the sources field of a mapping entry
ParseSources(v) ==
    IF v.t = "str"
    THEN IF RegexNew(v.v).ok THEN Ok(<<RegexNew(v.v)>>) ELSE Err("Expected valid regex")
    ELSE IF v.t = "seq"
    THEN IF \E i \in 1..Len(v.v) :
                /\ v.v[i].t # "str"
                /\ \A j \in 1..(i - 1) : v.v[j].t = "str" /\ RegexNew(v.v[j].v).ok
         THEN Err("Expected a sequence of strings")
         ELSE IF \E i \in 1..Len(v.v) : ~RegexNew(v.v[i].v).ok
         THEN Err("Expected a valid regex")
         ELSE Ok([i \in 1..Len(v.v) |-> RegexNew(v.v[i].v)])
    ELSE Err("Unexpected value, expected string or sequence of strings")

\* lib.rs:106-115, an optional boolean field with default true
ParseFlag(v, msg) ==
    IF v.t = "absent" THEN Ok(TRUE)
    ELSE IF v.t = "bool" THEN Ok(v.v)
    ELSE Err(msg)

\* lib.rs:116-120
ParseRename(v) ==
    IF v.t = "absent" THEN Ok(None)
    ELSE IF v.t = "str" THEN Ok(Some(v.v))
    ELSE Err("Expected rename to be a string")

\* lib.rs:81-126, one element of files
ParseFile(o) ==
    IF o.t = "str"
    THEN IF RegexNew(o.v).ok
         THEN Ok([sources |-> <<RegexNew(o.v)>>, template |-> TRUE,
                  include |-> TRUE, rename |-> None])
         ELSE Err("Expected valid regex")
    ELSE IF o.t = "map"
    THEN LET src == ParseSources(YGet(o, "sources"))
             tpl == ParseFlag(YGet(o, "template"), "Expected template to be a boolean")
             inc == ParseFlag(YGet(o, "include"), "Expected include to be a boolean")
             ren == ParseRename(YGet(o, "rename"))
         IN  IF src.st # "ok" THEN src
             ELSE IF tpl.st # "ok" THEN tpl
             ELSE IF inc.st # "ok" THEN inc
             ELSE IF ren.st # "ok" THEN ren
             ELSE Ok([sources |-> src.v, template |-> tpl.v,
                      include |-> inc.v, rename |-> ren.v])
    ELSE Err("Unexpected value, expected string or mapping")

\* lib.rs:150-152, the default field of a variable mapping
ParseDefault(v) ==
    IF v.t = "absent" THEN Ok(None)
    ELSE IF v.t = "str" THEN Ok(Some(v.v))
    ELSE Panic("called Option::unwrap() on a None value")

\* lib.rs:138-158, one element of variables
ParseVariable(v) ==
    IF v.t = "str" THEN Ok([name |-> v.v, default |-> None])
    ELSE IF v.t = "map"
    THEN LET n == YGet(v, "name")
             d == ParseDefault(YGet(v, "default"))
         IN  IF n.t = "absent" THEN Err("Expected name for variable")
             ELSE IF n.t # "str" THEN Err("Expected variable name to be string")
             ELSE IF d.st # "ok" THEN d
             ELSE Ok([name |-> n.v, default |-> d.v])
    ELSE Err("Unexpected value, expected string or mapping")

\* lib.rs:48-162
parse_definition(def) ==
    IF def.t = "invalid" THEN Err("Invalid yaml in template definition")
    ELSE IF def.t # "map"
    THEN Err("Expected template definition to be mapping at top level")
    ELSE
    LET f     == YGet(def, "files")
        files == IF f.t = "absent" THEN Ok(<<>>)
                 ELSE IF f.t # "seq" THEN Err("Expected files to be a sequence")
                 ELSE Collect([i \in 1..Len(f.v) |-> ParseFile(f.v[i])])
        vs    == YGet(def, "variables")
        vars  == IF vs.t = "absent" THEN Ok(<<>>)
                 ELSE IF vs.t # "seq" THEN Err("Expected variables to be a sequence")
                 ELSE Collect([i \in 1..Len(vs.v) |-> ParseVariable(vs.v[i])])
    IN  IF files.st # "ok" THEN files
        ELSE IF vars.st # "ok" THEN vars
        ELSE Ok([files |-> files.v \o default_files_entry, variables |-> vars.v])

\* does some pattern of the rule match s (lib.rs:27-30)
RuleMatches(d, s) == \E k \in 1..Len(d.sources) : is_match(d.sources[k], s)

\* find_for_str returning the last matching rule instead of the first
find_for_str_last(self, s) ==
    IF \E i \in 1..Len(self.files) : RuleMatches(self.files[i], s)
    THEN CHOOSE i \in 1..Len(self.files) :
            /\ RuleMatches(self.files[i], s)
            /\ \A j \in (i + 1)..Len(self.files) : ~RuleMatches(self.files[j], s)
    ELSE 0

\* TemplateDef::find_for_str (lib.rs:25-32): the index of the first matching
\* rule, 0 for None
find_for_str(self, s) ==
    IF \E i \in 1..Len(self.files) : RuleMatches(self.files[i], s)
    THEN CHOOSE i \in 1..Len(self.files) :
            /\ RuleMatches(self.files[i], s)
            /\ \A j \in 1..(i - 1) : ~RuleMatches(self.files[j], s)
    ELSE 0

(***************************************************************************)
(* tera::Tera::one_off and tera::Context, restricted to {{ name }}         *)
(* expressions over string values.  A context is a function from names to  *)
(* values.                                                                 *)
(***************************************************************************)
k_basename == <<"b","a","s","e","n","a","m","e">>
k_file     == <<"f","i","l","e">>
k_n        == <<"n">>
k_m        == <<"m">>

EmptyContext == [k \in {} |-> <<>>]

\* tera::Context::insert: sets the key, replacing a value it already has
ContextInsert(c, k, v) == [x \in (DOMAIN c) \cup {k} |-> IF x = k THEN v ELSE c[x]]

RECURSIVE Trim(_)
Trim(s) ==
    IF s = <<>> THEN s
    ELSE IF Head(s) = " " THEN Trim(Tail(s))
    ELSE IF s[Len(s)] = " " THEN Trim(SubSeq(s, 1, Len(s) - 1))
    ELSE s

\* the position of the first "}}" at or after i, 0 when there is none
CloseAt(s, i) ==
    IF \E j \in i..(Len(s) - 1) : s[j] = "}" /\ s[j + 1] = "}"
    THEN CHOOSE j \in i..(Len(s) - 1) :
            /\ s[j] = "}" /\ s[j + 1] = "}"
            /\ \A h \in i..(j - 1) : ~(s[h] = "}" /\ s[h + 1] = "}")
    ELSE 0

RECURSIVE Render(_, _, _)
\* the rendering of s from position i on
Render(s, i, c) ==
    IF i > Len(s) THEN Ok(<<>>)
    ELSE IF s[i] = "{" /\ i < Len(s) /\ s[i + 1] = "{"
    THEN LET e    == CloseAt(s, i + 2)
             name == Trim(SubSeq(s, i + 2, e - 1))
             rest == Render(s, e + 2, c)
         IN  IF e = 0 \/ name = <<>> THEN Err("Failed to parse template")
             ELSE IF name \notin DOMAIN c THEN Err("Variable not found in context")
             ELSE IF rest.st # "ok" THEN rest
             ELSE Ok(c[name] \o rest.v)
    ELSE LET rest == Render(s, i + 1, c)
         IN  IF rest.st # "ok" THEN rest ELSE Ok(<<s[i]>> \o rest.v)

one_off(input, c) == Render(input, 1, c)

(***************************************************************************)
(* std::path and std::fs.  A directory tree is a function from paths       *)
(* relative to its root to nodes; the root is the empty path; a tree with  *)
(* an empty domain is a path that does not exist.                          *)
(***************************************************************************)
NoTree   == [p \in {} |-> <<>>]
DirNode  == [kind |-> "dir", content |-> <<>>]
FileNode(bytes) == [kind |-> "file", content |-> bytes]

\* positions of the separators of p
Slashes(p) == {i \in 1..Len(p) : p[i] = "/"}
Max(S) == CHOOSE x \in S : \A y \in S : y <= x

\* Path::parent of a relative path (the root for a single component)
Parent(p) == IF Slashes(p) = {} THEN <<>> ELSE SubSeq(p, 1, Max(Slashes(p)) - 1)

\* Path::file_name: the final component, None when the path ends in ..
FileName(p) ==
    LET last == IF Slashes(p) = {} THEN p ELSE SubSeq(p, Max(Slashes(p)) + 1, Len(p))
    IN  IF last = <<>> \/ last = <<".", ".">> THEN None ELSE Some(last)

\* p and every ancestor of p, the root included
Prefixes(p) == {<<>>, p} \cup {SubSeq(p, 1, i - 1) : i \in Slashes(p)}

\* is p strictly beneath directory d
IsUnder(p, d) == Len(p) > Len(d) + 1 /\ SubSeq(p, 1, Len(d) + 1) = d \o <<"/">>

\* Path::exists
Exists(tree, p) == p \in DOMAIN tree

\* std::fs::create_dir_all: fails when a component is a file
create_dir_all(tree, p) ==
    IF \E q \in Prefixes(p) : q \in DOMAIN tree /\ tree[q].kind # "dir"
    THEN Err("create_dir_all")
    ELSE Ok([q \in (DOMAIN tree) \cup Prefixes(p) |->
                IF q \in DOMAIN tree THEN tree[q] ELSE DirNode])

\* std::fs::File::create: needs the parent directory, fails on a directory,
\* truncates a file that is already there
FileCreate(tree, p) ==
    IF Parent(p) \notin DOMAIN tree \/ tree[Parent(p)].kind # "dir"
    THEN Err("File::create: no such directory")
    ELSE IF p \in DOMAIN tree /\ tree[p].kind = "dir"
    THEN Err("File::create: is a directory")
    ELSE Ok([q \in (DOMAIN tree) \cup {p} |-> IF q = p THEN FileNode(<<>>) ELSE tree[q]])

\* Write::write_all on the file just created
write_all(tree, p, bytes) == [tree EXCEPT ![p] = FileNode(bytes)]

(***************************************************************************)
(* Inputs: the template.yml documents, the process-wide defaults.yml, the  *)
(* entries of the template directory and the command lines.               *)
(***************************************************************************)
\* number of invocations of the command in one behaviour
MaxRuns == 2

s_tpl    == <<"t","p","l">>
s_repo   == <<"r","e","p","o">>
s_x_up   == <<"x","/",".",".">>
s_old    == <<"o","l","d">>
t_n      == <<"{","{","n","}","}">>
t_base   == <<"{","{"," ","b","a","s","e","n","a","m","e"," ","}","}">>
t_fileout == <<"{","{","f","i","l","e","}","}">> \o s_out
t_open   == <<"{","{","n">>
s_a_out  == s_a \o s_out

\* the files part of template.yml; top tells what the document is
FilesCfgs ==
    << [top |-> "map", frag |-> [k \in {} |-> YNull]],
       \* scenario A: exclude one file
       [top |-> "map", frag |-> [files |-> YSeq(<<
            YMap([sources |-> YStr(re_a), include |-> YBool(FALSE)])>>)]],
       \* two entries renamed to the same destination path
       [top |-> "map", frag |-> [files |-> YSeq(<<
            YMap([sources |-> YStr(re_a), rename |-> YStr(s_b)])>>)]],
       \* scenario C: rename with the file key
       [top |-> "map", frag |-> [files |-> YSeq(<<
            YMap([sources |-> YSeq(<<YStr(re_a)>>), rename |-> YStr(t_fileout)])>>)]],
       \* an excluded directory with an explicitly included descendant
       [top |-> "map", frag |-> [files |-> YSeq(<<
            YStr(re_d_f),
            YMap([sources |-> YStr(re_d), include |-> YBool(FALSE)])>>)]],
       \* a renamed directory
       [top |-> "map", frag |-> [files |-> YSeq(<<
            YMap([sources |-> YStr(re_d), rename |-> YStr(s_e)])>>)]],
       \* explicit rules for template.yml and .git, copied verbatim
       [top |-> "map", frag |-> [files |-> YSeq(<<
            YMap([sources |-> YSeq(<<YStr(re_tyml_esc), YStr(re_git), YStr(re_git_dir)>>),
                  template |-> YBool(FALSE)])>>)]],
       \* a file copied verbatim
       [top |-> "map", frag |-> [files |-> YSeq(<<
            YMap([sources |-> YStr(re_b), template |-> YBool(FALSE)])>>)]],
       \* a rename that does not render
       [top |-> "map", frag |-> [files |-> YSeq(<<
            YMap([sources |-> YStr(re_b), rename |-> YStr(t_open)])>>)]],
       \* malformed entries
       [top |-> "map", frag |-> [files |-> YSeq(<<YStr(re_bad)>>)]],
       [top |-> "map", frag |-> [files |-> YSeq(<<YNum(1)>>)]],
       [top |-> "map", frag |-> [files |-> YSeq(<<
            YMap([sources |-> YSeq(<<YStr(re_a), YNull>>)])>>)]],
       [top |-> "map", frag |-> [files |-> YSeq(<<
            YMap([sources |-> YStr(re_a), include |-> YStr(s_a)])>>)]],
       [top |-> "map", frag |-> [files |-> YStr(re_a)]],
       \* documents that are not a mapping, and a template without template.yml
       [top |-> "scalar",  frag |-> [k \in {} |-> YNull]],
       [top |-> "invalid", frag |-> [k \in {} |-> YNull]],
       [top |-> "missing", frag |-> [k \in {} |-> YNull]] >>

\* the variables part of template.yml
VarsCfgs ==
    << [variables |-> YSeq(<<YMap([name |-> YStr(k_n), default |-> YStr(s_dflt)])>>)],
       [k \in {} |-> YNull],
       \* scenario B: a variable without default
       [variables |-> YSeq(<<YStr(k_n)>>)],
       [variables |-> YSeq(<<YStr(k_n), YStr(k_m), YStr(k_n)>>)],
       [variables |-> YSeq(<<YStr(k_basename), YStr(k_n)>>)],
       [variables |-> YSeq(<<YMap([name |-> YStr(k_basename), default |-> YStr(s_dflt)]),
                             YMap([name |-> YStr(k_n)]),
                             YMap([name |-> YStr(k_n), default |-> YStr(s_dflt)])>>)],
       \* malformed entries
       [variables |-> YSeq(<<YStr(k_n), YMap([name |-> YStr(k_m), default |-> YNum(1)])>>)],
       [variables |-> YSeq(<<YMap([name |-> YStr(k_m), default |-> YNull])>>)],
       [variables |-> YSeq(<<YMap([default |-> YBool(TRUE)])>>)],
       [variables |-> YSeq(<<YMap([name |-> YNum(1)])>>)],
       [variables |-> YSeq(<<YNum(1)>>)],
       [variables |-> YStr(k_n)] >>

\* defaults.yml in the configuration directory
DefaultsFiles ==
    << YMap(EmptyContext),
       YMap(ContextInsert(EmptyContext, k_n, s_cfg)),
       YMap(ContextInsert(ContextInsert(EmptyContext, k_basename, s_cfg), k_m, s_cfg)),
       YSeq(<<>>),
       YInvalid,
       YAbsent >>

\* an entry the directory walk yields: a directory, a file, or a traversal
\* error; utf8name tells whether the relative path converts to a string
Entry(path, kind, body) ==
    [path |-> path, kind |-> kind, body |-> body, utf8name |-> TRUE, utf8body |-> TRUE]

\* template directories, in the pre-order the walk yields them
Trees ==
    << << Entry(s_template_yml, "file", s_cfg),
          Entry(s_git, "dir", <<>>),
          Entry(s_git_c, "file", s_cfg),
          Entry(s_a, "file", t_n),
          Entry(s_b, "file", t_base),
          Entry(s_d, "dir", <<>>),
          Entry(s_d_f, "file", s_e) >>,
       << Entry(s_a, "file", t_n),
          Entry(s_d, "dir", <<>>),
          Entry(s_d_k, "err", <<>>),
          [Entry(s_e, "dir", <<>>) EXCEPT !.utf8name = FALSE],
          [Entry(s_xgit, "file", s_cfg) EXCEPT !.utf8name = FALSE],
          Entry(s_template_yml, "file", s_cfg),
          [Entry(s_b, "file", t_open) EXCEPT !.utf8body = FALSE] >> >>

\* template arguments that are existing local paths (main.rs:24)
LocalPaths   == {s_tpl}
TemplateArgs == {s_tpl, s_repo}
Destinations == {s_proj, s_x_up, s_old}
\* the destination that exists before the first invocation
OldTree      == [p \in {<<>>, s_a} |-> IF p = <<>> THEN DirNode ELSE FileNode(s_cfg)]
\* lines the user types at a prompt
StdinLines   == {s_demo}

\* the combinations of inputs explored: every variables part with every
\* defaults file, and every files part with every template directory
Scenarios ==
    {[f |-> 1, v |-> v, d |-> d, t |-> 1] :
        v \in 1..Len(VarsCfgs), d \in 1..Len(DefaultsFiles)}
    \cup
    {[f |-> f, v |-> 1, d |-> 1, t |-> t] :
        f \in 1..Len(FilesCfgs), t \in 1..Len(Trees)}

\* template.yml of a scenario
ConfigOf(i) ==
    LET fc == FilesCfgs[i.f]
    IN  IF fc.top = "missing" THEN YAbsent
        ELSE IF fc.top = "invalid" THEN YInvalid
        ELSE IF fc.top = "scalar" THEN YStr(s_cfg)
        ELSE YMap(fc.frag @@ VarsCfgs[i.v])

(***************************************************************************)
(* The program.                                                            *)
(***************************************************************************)
VARIABLES
    input,      \* the scenario: template.yml, defaults.yml, template directory
    run,        \* number of the current invocation
    pc,         \* position of the current invocation
    args,       \* its command line
    exit,       \* its result
    cacheDir,   \* does the cache root exist
    cached,     \* template identifiers whose cache path exists
    git,        \* git commands issued by the current invocation
    dests,      \* the directory tree at each destination path
    def,        \* generate: the parsed TemplateDef
    context,    \* generate: the tera context
    varIdx,     \* generate: position in def.variables
    prompts,    \* variables prompted for on standard output
    walkIdx,    \* generate: position of the walk in the template directory
    walked      \* entries the walk has yielded, with what became of each

vars == <<input, run, pc, args, exit, cacheDir, cached, git, dests, def,
          context, varIdx, prompts, walkIdx, walked>>

Running == [st |-> "running", v |-> <<>>, msg |-> ""]
NoDef   == [files |-> <<>>, variables |-> <<>>]

Init ==
    /\ input \in Scenarios
    /\ run = 1
    /\ pc = "start"
    /\ args = [template |-> None, destination |-> None]
    /\ exit = Running
    /\ cacheDir = FALSE
    /\ cached = {}
    /\ git = <<>>
    /\ dests = [d \in Destinations |-> IF d = s_old THEN OldTree ELSE NoTree]
    /\ def = NoDef
    /\ context = EmptyContext
    /\ varIdx = 1
    /\ prompts = <<>>
    /\ walkIdx = 1
    /\ walked = <<>>

template    == args.template.v
destination == args.destination.v
Tree        == Trees[input.t]

\* return from main with a result
Return(r) == pc' = "exit" /\ exit' = r

\* main.rs:9-15
ParseArgs ==
    /\ pc = "start"
    /\ \E t \in {None} \cup {Some(x) : x \in TemplateArgs},
          d \in {None} \cup {Some(x) : x \in Destinations} :
        /\ t = None => d = None
        /\ args' = [template |-> t, destination |-> d]
        /\ IF ~t.some THEN Return(Err("Missing template URL"))
           ELSE IF ~d.some THEN Return(Err("Missing destination path"))
           ELSE pc' = "check_dest" /\ exit' = exit
    /\ UNCHANGED <<input, run, cacheDir, cached, git, dests, def, context,
                   varIdx, prompts, walkIdx, walked>>

\* the destination check made after the cache root is created
CheckDestination_late ==
    /\ pc = "check_dest"
    /\ cacheDir' = TRUE
    /\ IF Exists(dests[destination], <<>>)
       THEN Return(Err("Destination path exists"))
       ELSE pc' = "cache" /\ exit' = exit
    /\ UNCHANGED <<input, run, args, cached, git, dests, def, context,
                   varIdx, prompts, walkIdx, walked>>

\* main.rs:16-18
CheckDestination ==
    /\ pc = "check_dest"
    /\ IF Exists(dests[destination], <<>>)
       THEN Return(Err("Destination path exists"))
       ELSE pc' = "cache" /\ exit' = exit
    /\ UNCHANGED <<input, run, args, cacheDir, cached, git, dests, def, context,
                   varIdx, prompts, walkIdx, walked>>

\* main.rs:19-22
EnsureCache ==
    /\ pc = "cache"
    /\ cacheDir' = TRUE
    /\ pc' = "source"
    /\ UNCHANGED <<input, run, args, exit, cached, git, dests, def, context,
                   varIdx, prompts, walkIdx, walked>>

\* main.rs:24-25
UseLocal ==
    /\ pc = "source"
    /\ template \in LocalPaths
    /\ pc' = "gen_parse"
    /\ UNCHANGED <<input, run, args, exit, cacheDir, cached, git, dests, def,
                   context, varIdx, prompts, walkIdx, walked>>

\* a clone issued whether or not the cache path exists
Clone_always ==
    /\ pc = "source"
    /\ template \notin LocalPaths
    /\ git' = Append(git, <<"clone", template>>)
    /\ \E success \in BOOLEAN :
        IF success
        THEN cached' = cached \cup {template} /\ pc' = "gen_parse" /\ exit' = exit
        ELSE cached' = cached /\ Return(Err("Failed to clone repo"))
    /\ UNCHANGED <<input, run, args, cacheDir, dests, def, context, varIdx,
                   prompts, walkIdx, walked>>

\* main.rs:27-28 and Repo::clone (git.rs:24-34)
Clone ==
    /\ pc = "source"
    /\ template \notin LocalPaths
    /\ template \notin cached
    /\ git' = Append(git, <<"clone", template>>)
    /\ \E success \in BOOLEAN :
        IF success
        THEN cached' = cached \cup {template} /\ pc' = "gen_parse" /\ exit' = exit
        ELSE cached' = cached /\ Return(Err("Failed to clone repo"))
    /\ UNCHANGED <<input, run, args, cacheDir, dests, def, context, varIdx,
                   prompts, walkIdx, walked>>

\* main.rs:29-30 and Repo::open (git.rs:36-46)
Open ==
    /\ pc = "source"
    /\ template \notin LocalPaths
    /\ template \in cached
    /\ git' = Append(git, <<"status", template>>)
    /\ \E success \in BOOLEAN :
        IF success
        THEN pc' = "pull" /\ exit' = exit
        ELSE Return(Err("Failed to open repo"))
    /\ UNCHANGED <<input, run, args, cacheDir, cached, dests, def, context,
                   varIdx, prompts, walkIdx, walked>>

\* main.rs:30 and Repo::pull (git.rs:52-61)
Pull ==
    /\ pc = "pull"
    /\ git' = Append(git, <<"pull", template>>)
    /\ \E success \in BOOLEAN :
        IF success
        THEN pc' = "gen_parse" /\ exit' = exit
        ELSE Return(Err("Failed to pull from remote in repo"))
    /\ UNCHANGED <<input, run, args, cacheDir, cached, dests, def, context,
                   varIdx, prompts, walkIdx, walked>>

\* lib.rs:175-177
GenParse ==
    /\ pc = "gen_parse"
    /\ LET cfg == ConfigOf(input)
           r   == parse_definition(cfg)
       IN  IF cfg.t = "absent"
           THEN Return(Err("Template definition not found")) /\ def' = def
           ELSE IF r.st = "ok"
           THEN def' = r.v /\ pc' = "gen_mkdir" /\ exit' = exit
           ELSE Return(r) /\ def' = def
    /\ UNCHANGED <<input, run, args, cacheDir, cached, git, dests, context,
                   varIdx, prompts, walkIdx, walked>>

\* lib.rs:178; the tree is kept relative to the destination path
GenCreateDest ==
    /\ pc = "gen_mkdir"
    /\ LET r == create_dir_all(dests[destination], <<>>)
       IN  IF r.st = "ok"
           THEN dests' = [dests EXCEPT ![destination] = r.v]
                /\ pc' = "gen_defaults" /\ exit' = exit
           ELSE dests' = dests /\ Return(r)
    /\ UNCHANGED <<input, run, args, cacheDir, cached, git, def, context,
                   varIdx, prompts, walkIdx, walked>>

\* lib.rs:179-182
GenDefaults ==
    /\ pc = "gen_defaults"
    /\ LET y == DefaultsFiles[input.d]
       IN  IF y.t = "absent"
           THEN Return(Err("No such file or directory")) /\ context' = context
           ELSE IF y.t = "invalid"
           THEN Return(Err("While parsing default variables")) /\ context' = context
           ELSE IF y.t # "map"
           THEN Return(Err("Creating a Context from a Value/Serialize requires it being a JSON object"))
                /\ context' = context
           ELSE context' = y.v /\ pc' = "gen_basename" /\ exit' = exit
    /\ UNCHANGED <<input, run, args, cacheDir, cached, git, dests, def,
                   varIdx, prompts, walkIdx, walked>>

\* where the loop over def.variables continues from position i
VarPc(i) == IF i <= Len(def.variables) THEN "gen_vars" ELSE "gen_walk"

\* generate without the insertion of basename
GenBasename_skip ==
    /\ pc = "gen_basename"
    /\ pc' = VarPc(1)
    /\ UNCHANGED <<input, run, args, exit, cacheDir, cached, git, dests, def,
                   context, varIdx, prompts, walkIdx, walked>>

\* lib.rs:183-185
GenBasename ==
    /\ pc = "gen_basename"
    /\ context' = IF FileName(destination).some
                  THEN ContextInsert(context, k_basename, FileName(destination).v)
                  ELSE context
    /\ pc' = VarPc(1)
    /\ UNCHANGED <<input, run, args, exit, cacheDir, cached, git, dests, def,
                   varIdx, prompts, walkIdx, walked>>

\* lib.rs:187-189
VarPresent ==
    /\ pc = "gen_vars"
    /\ def.variables[varIdx].name \in DOMAIN context
    /\ varIdx' = varIdx + 1
    /\ pc' = VarPc(varIdx + 1)
    /\ UNCHANGED <<input, run, args, exit, cacheDir, cached, git, dests, def,
                   context, prompts, walkIdx, walked>>

\* lib.rs:190-191
VarDefault ==
    /\ pc = "gen_vars"
    /\ def.variables[varIdx].name \notin DOMAIN context
    /\ def.variables[varIdx].default.some
    /\ context' = ContextInsert(context, def.variables[varIdx].name,
                                def.variables[varIdx].default.v)
    /\ varIdx' = varIdx + 1
    /\ pc' = VarPc(varIdx + 1)
    /\ UNCHANGED <<input, run, args, exit, cacheDir, cached, git, dests, def,
                   prompts, walkIdx, walked>>

\* lib.rs:192-193 and prompt (lib.rs:164-171); at the end of standard input
\* the unwrap of the missing line panics
VarPrompt ==
    /\ pc = "gen_vars"
    /\ def.variables[varIdx].name \notin DOMAIN context
    /\ ~def.variables[varIdx].default.some
    /\ prompts' = Append(prompts, def.variables[varIdx].name)
    /\ \/ \E line \in StdinLines :
            /\ context' = ContextInsert(context, def.variables[varIdx].name, line)
            /\ varIdx' = varIdx + 1
            /\ pc' = VarPc(varIdx + 1)
            /\ exit' = exit
       \/ /\ Return(Panic("called Option::unwrap() on a None value"))
          /\ UNCHANGED <<context, varIdx>>
    /\ UNCHANGED <<input, run, args, cacheDir, cached, git, dests, def,
                   walkIdx, walked>>

\* the walk's current entry
entry == Tree[walkIdx]

\* the filter_entry predicate (lib.rs:199-207)
FilterPredicate(e) ==
    LET o == IF e.utf8name THEN find_for_str(def, e.path) ELSE 0
    IN  IF o = 0 THEN FALSE ELSE def.files[o].include

\* a rejected directory that is still entered
SkipDir_enter(i) == i + 1

\* the position of the first entry after i that is not beneath entry i
\* (walkdir's skip_current_dir)
SkipDir(i) ==
    IF \E j \in (i + 1)..Len(Tree) : ~IsUnder(Tree[j].path, Tree[i].path)
    THEN CHOOSE j \in (i + 1)..Len(Tree) :
            /\ ~IsUnder(Tree[j].path, Tree[i].path)
            /\ \A h \in (i + 1)..(j - 1) : IsUnder(Tree[h].path, Tree[i].path)
    ELSE Len(Tree) + 1

\* the rendering context of an entry (lib.rs:219-224)
FileContext(e) == ContextInsert(context, k_file, e.path)

\* the destination path of an entry under rule f (lib.rs:226-230)
NewPath(e, f) ==
    IF f.rename.some THEN one_off(f.rename.v, FileContext(e)) ELSE Ok(e.path)

\* lib.rs:208, a traversal error is walked by filter_map
WalkError ==
    /\ pc = "gen_walk"
    /\ walkIdx <= Len(Tree)
    /\ entry.kind = "err"
    /\ walkIdx' = walkIdx + 1
    /\ walked' = Append(walked, [path |-> entry.path, fate |-> "traversal error"])
    /\ UNCHANGED <<input, run, pc, args, exit, cacheDir, cached, git, dests, def,
                   context, varIdx, prompts>>

\* lib.rs:199-207, an entry the predicate rejects; a directory is not entered
WalkFiltered ==
    /\ pc = "gen_walk"
    /\ walkIdx <= Len(Tree)
    /\ entry.kind # "err"
    /\ ~FilterPredicate(entry)
    /\ walkIdx' = IF entry.kind = "dir" THEN SkipDir(walkIdx) ELSE walkIdx + 1
    /\ walked' = Append(walked,
          [path |-> entry.path,
           fate |-> IF ~entry.utf8name THEN "not a string"
                    ELSE IF find_for_str(def, entry.path) = 0 THEN "no rule"
                    ELSE "excluded"])
    /\ UNCHANGED <<input, run, pc, args, exit, cacheDir, cached, git, dests, def,
                   context, varIdx, prompts>>

\* lib.rs:216-234, an included directory
WalkDirEntry ==
    /\ pc = "gen_walk"
    /\ walkIdx <= Len(Tree)
    /\ entry.kind = "dir"
    /\ FilterPredicate(entry)
    /\ LET o   == find_for_str(def, entry.path)
           new == NewPath(entry, def.files[o])
           r   == create_dir_all(dests[destination], new.v)
       IN  IF ~entry.utf8name
           THEN Return(Err("Filename is not a string")) /\ UNCHANGED <<dests, walkIdx>>
           ELSE IF o = 0
           THEN Return(Err("Could not find a spec for file")) /\ UNCHANGED <<dests, walkIdx>>
           ELSE IF new.st # "ok"
           THEN Return(new) /\ UNCHANGED <<dests, walkIdx>>
           ELSE IF r.st # "ok"
           THEN Return(Err("Could not create dir")) /\ UNCHANGED <<dests, walkIdx>>
           ELSE /\ dests' = [dests EXCEPT ![destination] = r.v]
                /\ walkIdx' = walkIdx + 1
                /\ UNCHANGED <<pc, exit>>
    /\ walked' = Append(walked, [path |-> entry.path, fate |-> "dir"])
    /\ UNCHANGED <<input, run, args, cacheDir, cached, git, def, context,
                   varIdx, prompts>>

\* lib.rs:216-230 and 235-253, an included file
WalkFileEntry ==
    /\ pc = "gen_walk"
    /\ walkIdx <= Len(Tree)
    /\ entry.kind = "file"
    /\ FilterPredicate(entry)
    /\ LET o    == find_for_str(def, entry.path)
           f    == def.files[o]
           new  == NewPath(entry, f)
           file == FileCreate(dests[destination], new.v)
           text == one_off(entry.body, FileContext(entry))
       IN  IF ~entry.utf8name
           THEN Return(Err("Filename is not a string")) /\ UNCHANGED <<dests, walkIdx>>
           ELSE IF o = 0
           THEN Return(Err("Could not find a spec for file")) /\ UNCHANGED <<dests, walkIdx>>
           ELSE IF new.st # "ok"
           THEN Return(new) /\ UNCHANGED <<dests, walkIdx>>
           ELSE IF file.st # "ok"
           THEN Return(Err("Destination already exists!")) /\ UNCHANGED <<dests, walkIdx>>
           ELSE IF f.template /\ ~entry.utf8body
           THEN /\ Return(Err("Invalid UTF-8 in file"))
                /\ dests' = [dests EXCEPT ![destination] = file.v]
                /\ walkIdx' = walkIdx
           ELSE IF f.template /\ text.st # "ok"
           THEN /\ Return(text)
                /\ dests' = [dests EXCEPT ![destination] = file.v]
                /\ walkIdx' = walkIdx
           ELSE /\ dests' = [dests EXCEPT ![destination] =
                        write_all(file.v, new.v,
                                  IF f.template THEN text.v ELSE entry.body)]
                /\ walkIdx' = walkIdx + 1
                /\ UNCHANGED <<pc, exit>>
    /\ walked' = Append(walked, [path |-> entry.path, fate |-> "file"])
    /\ UNCHANGED <<input, run, args, cacheDir, cached, git, def, context,
                   varIdx, prompts>>

\* lib.rs:255 and main.rs:34-35
GenDone ==
    /\ pc = "gen_walk"
    /\ walkIdx > Len(Tree)
    /\ Return(Ok(<<>>))
    /\ UNCHANGED <<input, run, args, cacheDir, cached, git, dests, def, context,
                   varIdx, prompts, walkIdx, walked>>

\* the command is invoked again; the file system is what the earlier
\* invocations left
Invoke ==
    /\ pc = "exit"
    /\ run < MaxRuns
    /\ run' = run + 1
    /\ pc' = "start"
    /\ args' = [template |-> None, destination |-> None]
    /\ exit' = Running
    /\ git' = <<>>
    /\ def' = NoDef
    /\ context' = EmptyContext
    /\ varIdx' = 1
    /\ prompts' = <<>>
    /\ walkIdx' = 1
    /\ walked' = <<>>
    /\ UNCHANGED <<input, cacheDir, cached, dests>>

Next ==
    \/ ParseArgs
    \/ CheckDestination
    \/ EnsureCache
    \/ UseLocal
    \/ Clone
    \/ Open
    \/ Pull
    \/ GenParse
    \/ GenCreateDest
    \/ GenDefaults
    \/ GenBasename
    \/ VarPresent
    \/ VarDefault
    \/ VarPrompt
    \/ WalkError
    \/ WalkFiltered
    \/ WalkDirEntry
    \/ WalkFileEntry
    \/ GenDone
    \/ Invoke

Spec == Init /\ [][Next]_vars

(***************************************************************************)
(* Properties.                                                             *)
(***************************************************************************)
\* the tree at the destination of the current invocation
out == dests[destination]

\* C1: variable binding is first-writer-wins: while generate binds the
\* variables (basename, then the declared variables), a key that has a value
\* keeps it.
C1_FirstWriterWins ==
    [][(pc \in {"gen_basename", "gen_vars"}) =>
        (\A k \in DOMAIN context : k \in DOMAIN context' /\ context[k] = context'[k])]_vars

\* C2: writing a destination file never overwrites: when the destination
\* path of an included file entry already exists, the step fails and every
\* file of the destination tree keeps its content.
C2_NoOverwrite ==
    [][(/\ pc = "gen_walk" /\ walkIdx <= Len(Tree)
        /\ entry.kind = "file" /\ FilterPredicate(entry)
        /\ NewPath(entry, def.files[find_for_str(def, entry.path)]).st = "ok"
        /\ Exists(out, NewPath(entry, def.files[find_for_str(def, entry.path)]).v))
       => /\ pc' = "exit" /\ exit'.st = "err"
          /\ dests' = dests]_vars

\* paths on which rule resolution is examined
TestPaths ==
    {<<>>, <<"\n">>, s_template_yml, s_git, s_git_c, s_xgit, s_a, s_b, s_d, s_d_f,
     s_a_out}

\* the files sequence of the template.yml of the scenario
DeclaredFiles ==
    LET f == YGet(ConfigOf(input), "files")
    IN  IF f.t = "seq" THEN f.v ELSE <<>>

\* the pattern strings the i-th files element declares
DeclaredSources(i) ==
    LET o == DeclaredFiles[i]
    IN  IF o.t = "str" THEN <<o.v>>
        ELSE IF YGet(o, "sources").t = "str" THEN <<YGet(o, "sources").v>>
        ELSE [k \in 1..Len(YGet(o, "sources").v) |-> YGet(o, "sources").v[k].v]

\* C3: rule resolution is total and first-match: the rule list of a parsed
\* definition is the declared rules in order followed by the template.yml,
\* .git and catch-all rules, and for every path find_for_str returns the
\* lowest index of a rule that has a matching pattern, never None.
C3_Resolution ==
    def # NoDef =>
        /\ Len(def.files) = Len(DeclaredFiles) + 3
        /\ SubSeq(def.files, Len(DeclaredFiles) + 1, Len(def.files)) = default_files_entry
        /\ \A i \in 1..Len(DeclaredFiles) :
              [k \in 1..Len(def.files[i].sources) |-> def.files[i].sources[k].src]
                  = DeclaredSources(i)
        /\ \A p \in TestPaths :
              LET r == find_for_str(def, p)
              IN  /\ r \in 1..Len(def.files)
                  /\ RuleMatches(def.files[r], p)
                  /\ \A j \in 1..(r - 1) : ~RuleMatches(def.files[j], p)

\* an explicit rule for template.yml won over the fallback that excludes it,
\* and template.yml was copied
C3_Witness ==
    /\ def # NoDef
    /\ pc = "exit" /\ exit.st = "ok"
    /\ find_for_str(def, s_template_yml) = 1
    /\ Len(def.files) = 4
    /\ RuleMatches(def.files[2], s_template_yml)
    /\ def.files[1].include
    /\ Exists(out, s_template_yml)

\* the rule a path resolves to excludes it
Excluded(p) ==
    LET r == find_for_str(def, p)
    IN  r # 0 /\ ~def.files[r].include

\* C4: directory pruning: beneath a directory whose path resolves to a rule
\* with include=false no entry is visited by the walk and none appears in
\* the destination tree.
C4_Pruning ==
    def # NoDef =>
        \A i, j \in 1..Len(Tree) :
            (/\ Tree[i].kind = "dir" /\ Tree[i].utf8name
             /\ Excluded(Tree[i].path)
             /\ IsUnder(Tree[j].path, Tree[i].path))
            => /\ \A k \in 1..Len(walked) : walked[k].path # Tree[j].path
               /\ ~Exists(out, Tree[j].path)

\* a finished walk that rejected a directory whose descendant resolves to an
\* earlier rule with include=true
C4_Witness ==
    /\ pc = "exit" /\ exit.st = "ok"
    /\ \E i, j \in 1..Len(Tree) :
        /\ Tree[i].kind = "dir" /\ Excluded(Tree[i].path)
        /\ IsUnder(Tree[j].path, Tree[i].path)
        /\ ~Excluded(Tree[j].path)
        /\ find_for_str(def, Tree[j].path) < find_for_str(def, Tree[i].path)
        /\ \E k \in 1..Len(walked) :
              walked[k] = [path |-> Tree[i].path, fate |-> "excluded"]

\* C5: no error of the walk is swallowed: a run that reports success has
\* dropped no entry because of a traversal error, a path that is not a
\* string, or a missing rule.
C5_NoErrorSwallowed ==
    exit.st = "ok" =>
        \A k \in 1..Len(walked) :
            walked[k].fate \notin {"traversal error", "not a string", "no rule"}

\* a variables element that is neither a string nor a mapping with a string
\* name and an optional string default
MalformedVariable(v) ==
    /\ v.t # "str"
    /\ ~(/\ v.t = "map"
          /\ YGet(v, "name").t = "str"
          /\ YGet(v, "default").t \in {"absent", "str"})

\* does template.yml declare a malformed variables element
MalformedVariables ==
    LET c  == ConfigOf(input)
        vs == IF c.t = "map" THEN YGet(c, "variables") ELSE YAbsent
    IN  vs.t = "seq" /\ \E i \in 1..Len(vs.v) : MalformedVariable(vs.v[i])

\* C6: parse_definition returns a definition or an error for every
\* configuration and never aborts the process; a malformed variables element
\* makes it return an error.
C6_ParseNeverAborts ==
    [][pc = "gen_parse" =>
        /\ exit'.st # "panic"
        /\ MalformedVariables => exit'.st = "err"]_vars

\* C7: an invocation whose destination exists, or that lacks an argument,
\* fails before any effect: up to and including the destination check the
\* cache root, the cache paths and the destination trees are unchanged, no
\* git command is issued, nothing is parsed or prompted.
C7_FailsBeforeEffects ==
    [][(pc \in {"start", "check_dest"}) =>
        /\ cacheDir' = cacheDir /\ cached' = cached /\ dests' = dests
        /\ git' = <<>> /\ prompts' = <<>> /\ def' = NoDef /\ walked' = <<>>
        /\ context' = EmptyContext
        /\ (pc = "check_dest" /\ Exists(out, <<>>))
              => pc' = "exit" /\ exit' = Err("Destination path exists")
        /\ (pc = "start" /\ (~args'.template.some \/ ~args'.destination.some))
              => pc' = "exit" /\ exit'.st = "err"]_vars

\* the first invocation refused an existing destination and left it and the
\* cache alone
C7_Witness ==
    /\ pc = "exit"
    /\ exit = Err("Destination path exists")
    /\ ~cacheDir
    /\ out = OldTree

\* the keys of defaults.yml
DefaultKeys ==
    IF DefaultsFiles[input.d].t = "map" THEN DOMAIN DefaultsFiles[input.d].v ELSE {}

\* does the j-th declared variable trigger a prompt; always tells whether a
\* variable named basename is taken to be bound whatever the destination is
Prompted(j, always) ==
    LET var == def.variables[j]
    IN  /\ ~var.default.some
        /\ var.name \notin DefaultKeys
        /\ ~(var.name = k_basename /\ (always \/ FileName(destination).some))
        /\ \A h \in 1..(j - 1) : def.variables[h].name # var.name

RECURSIVE ExpectedPrompts(_, _)
\* the prompts of the first k declared variables, in order
ExpectedPrompts(k, always) ==
    IF k = 0 THEN <<>>
    ELSE ExpectedPrompts(k - 1, always)
         \o (IF Prompted(k, always) THEN <<def.variables[k].name>> ELSE <<>>)

\* the number of declared variables whose turn has come
Turns == IF exit.st = "panic" THEN varIdx ELSE varIdx - 1

\* a prompt that returned binds the line read to the variable prompted for
PromptBinds ==
    (pc = "gen_vars" /\ prompts' # prompts /\ exit'.st # "panic")
        => /\ prompts' = Append(prompts, def.variables[varIdx].name)
           /\ context'[def.variables[varIdx].name] \in StdinLines

\* C8 as claimed: one prompt, in declaration order, for each declared
\* variable without default whose key is absent at its turn; none for a
\* variable of defaults.yml, one with a default, one named basename, or a
\* repeated declaration.
C8_PromptsAsClaimed ==
    /\ [](def # NoDef => prompts = ExpectedPrompts(Turns, TRUE))
    /\ [][PromptBinds]_vars

\* C8 amended: as claimed, except that a variable named basename triggers no
\* prompt only when the destination path has a final component other than ..
C8_Prompts ==
    /\ [](def # NoDef => prompts = ExpectedPrompts(Turns, FALSE))
    /\ [][PromptBinds]_vars

\* a finished run that prompted once each for two variables, one of them
\* declared twice
C8_Witness ==
    /\ pc = "exit" /\ exit.st = "ok"
    /\ Len(def.variables) = 3
    /\ def.variables[1].name = def.variables[3].name
    /\ prompts = <<def.variables[1].name, def.variables[2].name>>
    /\ context[def.variables[1].name] \in StdinLines

\* the names of the git commands issued
Cmds == [i \in 1..Len(git) |-> git[i][1]]

\* C9: source resolution: a local path issues no git command; otherwise an
\* absent cache path gets one clone and no pull, a present one an open
\* followed by a pull and no clone; generate starts only after success, and
\* a failure ends the run.
C9_SourceResolution ==
    /\ [](/\ Cmds \in {<<>>, <<"clone">>, <<"status">>, <<"status", "pull">>}
          /\ (args.template.some /\ template \in LocalPaths) => git = <<>>
          /\ (pc \in {"gen_parse", "gen_mkdir", "gen_defaults", "gen_basename",
                      "gen_vars", "gen_walk"} /\ template \notin LocalPaths)
                => Cmds \in {<<"clone">>, <<"status", "pull">>}
          /\ (def # NoDef /\ template \notin LocalPaths) => template \in cached)
    /\ [][(pc # "exit" /\ git' # git) =>
            /\ Len(git') = Len(git) + 1
            /\ git'[Len(git')][2] = template
            /\ template \notin LocalPaths
            /\ Cmds'[Len(git')] = "clone" => template \notin cached /\ git = <<>>
            /\ Cmds'[Len(git')] = "status" => template \in cached /\ git = <<>>
            /\ Cmds'[Len(git')] = "pull" => Cmds = <<"status">>
            /\ \/ pc' = "exit" /\ exit'.st = "err" /\ def' = NoDef
               \/ pc' = "pull" /\ Cmds' = <<"status">>
               \/ pc' = "gen_parse" /\ template \in cached']_vars

\* a second invocation that found the cache path left by the clone of the
\* first and pulled
C9_Witness ==
    /\ run = 2
    /\ pc = "gen_parse"
    /\ Cmds = <<"status", "pull">>
    /\ template \in cached

\* C10: safe traversal under rename: when the walk is about to write an
\* included file entry, the parent directory of its destination path exists
\* in the destination tree.
C10_ParentExists ==
    (/\ pc = "gen_walk" /\ walkIdx <= Len(Tree)
     /\ entry.kind = "file" /\ FilterPredicate(entry)
     /\ NewPath(entry, def.files[find_for_str(def, entry.path)]).st = "ok")
    => LET new == NewPath(entry, def.files[find_for_str(def, entry.path)]).v
       IN  Exists(out, Parent(new)) /\ out[Parent(new)].kind = "dir"

====
